---- MODULE Spec2Model ----
(***************************************************************************)
(* Model of app_for_deployment/server.py: the /chat turn pipeline (crisis  *)
(* detection, escalation sequence, completion call with fallback, bounded  *)
(* session history) and /new-session.                                      *)
(*                                                                         *)
(* Text is modelled as a sequence of characters, every character being a   *)
(* one-character string; a character outside ASCII is written by its code  *)
(* point, "U+0165".  The long static texts of the program (fallback        *)
(* replies, escalation segments, system prompt) are abbreviated to a text  *)
(* of one symbol: the program never looks inside them.                     *)
(***************************************************************************)
EXTENDS Integers, Sequences, FiniteSets, TLC

(***************************************************************************)
(* Text primitives of Python used by the program.                          *)
(***************************************************************************)

\* str.lower() on the letters of the modelled alphabet.
UpperChars ==
  << "A", "B", "C", "D", "E", "F", "G", "H", "I", "J", "K", "L", "M",
     "N", "O", "P", "Q", "R", "S", "T", "U", "V", "W", "X", "Y", "Z",
     "U+00C1", "U+00C9", "U+00CD", "U+00D3", "U+00DA", "U+00DD", "U+010C", "U+010E", "U+011A", "U+0147", "U+0158", "U+0160", "U+0164",
     "U+017D", "U+00C4", "U+00D4", "U+016E", "U+0139", "U+0154", "U+013D" >>

LowerChars ==
  << "a", "b", "c", "d", "e", "f", "g", "h", "i", "j", "k", "l", "m",
     "n", "o", "p", "q", "r", "s", "t", "u", "v", "w", "x", "y", "z",
     "U+00E1", "U+00E9", "U+00ED", "U+00F3", "U+00FA", "U+00FD", "U+010D", "U+010F", "U+011B", "U+0148", "U+0159", "U+0161", "U+0165",
     "U+017E", "U+00E4", "U+00F4", "U+016F", "U+013A", "U+0155", "U+013E" >>

Lower(c) ==
  IF \E i \in 1..Len(UpperChars) : UpperChars[i] = c
    THEN LowerChars[CHOOSE i \in 1..Len(UpperChars) : UpperChars[i] = c]
    ELSE c

LowerStr(s) == [i \in 1..Len(s) |-> Lower(s[i])]

\* unicodedata.normalize('NFD', .) on the modelled alphabet.
Precomposed ==
  << "U+00E1", "U+00E9", "U+00ED", "U+00F3", "U+00FA", "U+00FD", "U+010D", "U+010F", "U+011B", "U+0148",
     "U+0159", "U+0161", "U+0165", "U+017E", "U+00E4", "U+00F4", "U+016F", "U+013A", "U+0155", "U+013E",
     "U+00C1", "U+00C9", "U+00CD", "U+00D3", "U+00DA", "U+00DD", "U+010C", "U+010E", "U+011A", "U+0147",
     "U+0158", "U+0160", "U+0164", "U+017D", "U+00C4", "U+00D4", "U+016E", "U+0139", "U+0154", "U+013D" >>

Decomposed ==
  << <<"a","U+0301">>, <<"e","U+0301">>, <<"i","U+0301">>, <<"o","U+0301">>, <<"u","U+0301">>,
     <<"y","U+0301">>, <<"c","U+030C">>, <<"d","U+030C">>, <<"e","U+030C">>, <<"n","U+030C">>,
     <<"r","U+030C">>, <<"s","U+030C">>, <<"t","U+030C">>, <<"z","U+030C">>, <<"a","U+0308">>,
     <<"o","U+0302">>, <<"u","U+030A">>, <<"l","U+0301">>, <<"r","U+0301">>, <<"l","U+030C">>,
     <<"A","U+0301">>, <<"E","U+0301">>, <<"I","U+0301">>, <<"O","U+0301">>, <<"U","U+0301">>,
     <<"Y","U+0301">>, <<"C","U+030C">>, <<"D","U+030C">>, <<"E","U+030C">>, <<"N","U+030C">>,
     <<"R","U+030C">>, <<"S","U+030C">>, <<"T","U+030C">>, <<"Z","U+030C">>, <<"A","U+0308">>,
     <<"O","U+0302">>, <<"U","U+030A">>, <<"L","U+0301">>, <<"R","U+0301">>, <<"L","U+030C">> >>


NFDChar(c) ==
  IF \E i \in 1..Len(Precomposed) : Precomposed[i] = c
    THEN Decomposed[CHOOSE i \in 1..Len(Precomposed) : Precomposed[i] = c]
    ELSE <<c>>

RECURSIVE NFD(_)
NFD(s) == IF s = <<>> THEN <<>> ELSE NFDChar(Head(s)) \o NFD(Tail(s))

\* unicodedata.category(c) == 'Mn'
CategoryMn == {"U+0301", "U+0302", "U+0308", "U+030A", "U+030C"}

strip_accents(text) == SelectSeq(NFD(text), LAMBDA c : c \notin CategoryMn)

\* str.strip(): leading and trailing whitespace removed.
Whitespace == {" ", "\t", "\n", "\r"}

RECURSIVE LStrip(_)
LStrip(s) == IF s # <<>> /\ Head(s) \in Whitespace THEN LStrip(Tail(s)) ELSE s

RECURSIVE RStrip(_)
RStrip(s) ==
  IF s # <<>> /\ s[Len(s)] \in Whitespace THEN RStrip(SubSeq(s, 1, Len(s) - 1)) ELSE s

Strip(s) == RStrip(LStrip(s))

\* `a in s` on strings: a occurs in s as a contiguous substring.
PrefixAt(s, i, a) ==
  /\ i + Len(a) - 1 <= Len(s)
  /\ \A k \in 1..Len(a) : s[i + k - 1] = a[k]

Contains(s, a) == \E i \in 1..(Len(s) + 1) : PrefixAt(s, i, a)

\* "\n".join(parts)
RECURSIVE Join(_)
Join(parts) ==
  IF parts = <<>> THEN <<>>
  ELSE IF Len(parts) = 1 THEN parts[1]
  ELSE parts[1] \o <<"\n">> \o Join(Tail(parts))

(***************************************************************************)
(* re.search for the shapes of pattern the program uses.  A pattern is a   *)
(* sequence of elements: "wb" is \b, "alt" is an alternation of literal    *)
(* texts (a literal is an alternation of one, x? is x or the empty text),  *)
(* "az+" is [a-z]+.                                                        *)
(***************************************************************************)
LowerAZ ==
  {"a","b","c","d","e","f","g","h","i","j","k","l","m",
   "n","o","p","q","r","s","t","u","v","w","x","y","z"}

Digits == {"0","1","2","3","4","5","6","7","8","9"}

\* \w of a str pattern: letters, digits and the underscore.
WordChars ==
  LowerAZ \cup Digits \cup {"_"}
    \cup {UpperChars[i] : i \in 1..Len(UpperChars)}
    \cup {LowerChars[i] : i \in 1..Len(LowerChars)}

\* \b at position i: between s[i-1] and s[i] exactly one is a word character.
WordBoundary(s, i) ==
  LET before == i > 1 /\ s[i - 1] \in WordChars
      after  == i <= Len(s) /\ s[i] \in WordChars
  IN  before # after

RECURSIVE MatchAt(_, _, _, _)
MatchAt(pat, k, s, i) ==
  IF k > Len(pat) THEN TRUE
  ELSE IF pat[k].t = "wb" THEN WordBoundary(s, i) /\ MatchAt(pat, k + 1, s, i)
  ELSE IF pat[k].t = "alt" THEN
    \E a \in 1..Len(pat[k].v) :
       PrefixAt(s, i, pat[k].v[a]) /\ MatchAt(pat, k + 1, s, i + Len(pat[k].v[a]))
  ELSE
    \E j \in (i + 1)..(Len(s) + 1) :
       (\A x \in i..(j - 1) : s[x] \in LowerAZ) /\ MatchAt(pat, k + 1, s, j)

re_search(pat, s) == \E i \in 1..(Len(s) + 1) : MatchAt(pat, 1, s, i)

(***************************************************************************)
(* detect_crisis_keywords                                                  *)
(***************************************************************************)
crisis_keywords ==
  << <<"s","u","i","c","i","d","e">>,
     <<"s","u","i","c","i","d","a","l">>,
     <<"k","i","l","l"," ","m","y","s","e","l","f">>,
     <<"e","n","d"," ","m","y"," ","l","i","f","e">>,
     <<"w","a","n","t"," ","t","o"," ","d","i","e">>,
     <<"b","e","t","t","e","r"," ","o","f","f"," ","d","e","a","d">>,
     <<"e","n","d"," ","i","t"," ","a","l","l">>,
     <<"t","a","k","e"," ","m","y"," ","o","w","n"," ","l","i","f","e">>,
     <<"h","u","r","t"," ","m","y","s","e","l","f">>,
     <<"c","u","t"," ","m","y","s","e","l","f">>,
     <<"h","a","r","m"," ","m","y","s","e","l","f">>,
     <<"s","e","l","f"," ","h","a","r","m">>,
     <<"s","a","m","o","v","r","a","z","d","a">>,
     <<"s","e","b","e","v","r","a","z","d","a">>,
     <<"z","a","b","i","j","e","m"," ","s","a">>,
     <<"z","a","b","i","t"," ","s","a">>,
     <<"u","k","o","n","c","i","t"," ","z","i","v","o","t">>,
     <<"c","h","c","e","m"," ","z","o","m","r","i","e","t">>,
     <<"c","h","c","i"," ","u","m","r","i","t">>,
     <<"u","b","l","i","z","i","t"," ","s","i">>,
     <<"u","s","k","o","d","i","t"," ","s","i">>,
     <<"c","h","c","e","m"," ","t","o"," ","s","k","o","n","c","i","t">>,
     <<"c","h","c","i"," ","t","o"," ","s","k","o","n","c","i","t">>,
     <<"n","e","v","l","a","d","z","e","m"," ","d","a","l","e","j">>,
     <<"u","z"," ","n","e","m","u","z","u">>,
     <<"j","e"," ","p","o"," ","v","s","e","m">>,
     <<"n","e","m","a"," ","t","o"," ","z","m","y","s","e","l">>,
     <<"n","e","m","a"," ","t","o"," ","s","m","y","s","l">>,
     <<"o","v","e","r","d","o","s","e">>,
     <<"p","r","e","d","a","v","k","o","v","a","l">>,
     <<"b","a","d"," ","t","r","i","p">>,
     <<"h","a","l","u","c","i","n","a","c","i","e">>,
     <<"n","o"," ","p","o","i","n","t"," ","l","i","v","i","n","g">>,
     <<"l","i","f","e"," ","i","s"," ","m","e","a","n","i","n","g","l","e","s","s">>,
     <<"c","a","n","n","o","t"," ","g","o"," ","o","n">> >>

all_patterns ==
  <<
     \* myslim na (sebevrazd|samovrazd)
     << [t |-> "alt", v |-> << <<"m","y","s","l","i","m"," ","n","a"," ">> >>],
        [t |-> "alt", v |-> << <<"s","e","b","e","v","r","a","z","d">>, <<"s","a","m","o","v","r","a","z","d">> >>] >>,
     \* chci (spachat|spachat) (sebevrazd|samovrazd)
     << [t |-> "alt", v |-> << <<"c","h","c","i"," ">> >>],
        [t |-> "alt", v |-> << <<"s","p","a","c","h","a","t">>, <<"s","p","a","c","h","a","t">> >>],
        [t |-> "alt", v |-> << <<" ">> >>],
        [t |-> "alt", v |-> << <<"s","e","b","e","v","r","a","z","d">>, <<"s","a","m","o","v","r","a","z","d">> >>] >>,
     \* chcem (spachat|spachat) (sebevrazd|samovrazd)
     << [t |-> "alt", v |-> << <<"c","h","c","e","m"," ">> >>],
        [t |-> "alt", v |-> << <<"s","p","a","c","h","a","t">>, <<"s","p","a","c","h","a","t">> >>],
        [t |-> "alt", v |-> << <<" ">> >>],
        [t |-> "alt", v |-> << <<"s","e","b","e","v","r","a","z","d">>, <<"s","a","m","o","v","r","a","z","d">> >>] >>,
     \* chci (skocit|skoncit)
     << [t |-> "alt", v |-> << <<"c","h","c","i"," ">> >>],
        [t |-> "alt", v |-> << <<"s","k","o","c","i","t">>, <<"s","k","o","n","c","i","t">> >>] >>,
     \* chcem (skocit|skoncit)
     << [t |-> "alt", v |-> << <<"c","h","c","e","m"," ">> >>],
        [t |-> "alt", v |-> << <<"s","k","o","c","i","t">>, <<"s","k","o","n","c","i","t">> >>] >>,
     \* \bi want to (die|kill|hurt|harm)
     << [t |-> "wb", v |-> <<>>],
        [t |-> "alt", v |-> << <<"i"," ","w","a","n","t"," ","t","o"," ">> >>],
        [t |-> "alt", v |-> << <<"d","i","e">>, <<"k","i","l","l">>, <<"h","u","r","t">>, <<"h","a","r","m">> >>] >>,
     \* \bi (wish|want) i (was|were) dead
     << [t |-> "wb", v |-> <<>>],
        [t |-> "alt", v |-> << <<"i"," ">> >>],
        [t |-> "alt", v |-> << <<"w","i","s","h">>, <<"w","a","n","t">> >>],
        [t |-> "alt", v |-> << <<" ","i"," ">> >>],
        [t |-> "alt", v |-> << <<"w","a","s">>, <<"w","e","r","e">> >>],
        [t |-> "alt", v |-> << <<" ","d","e","a","d">> >>] >>,
     \* \bi can'?t (take|handle|deal with) (this|it) anymore
     << [t |-> "wb", v |-> <<>>],
        [t |-> "alt", v |-> << <<"i"," ","c","a","n">> >>],
        [t |-> "alt", v |-> << <<"'">>, <<>> >>],
        [t |-> "alt", v |-> << <<"t"," ">> >>],
        [t |-> "alt", v |-> << <<"t","a","k","e">>, <<"h","a","n","d","l","e">>, <<"d","e","a","l"," ","w","i","t","h">> >>],
        [t |-> "alt", v |-> << <<" ">> >>],
        [t |-> "alt", v |-> << <<"t","h","i","s">>, <<"i","t">> >>],
        [t |-> "alt", v |-> << <<" ","a","n","y","m","o","r","e">> >>] >>,
     \* \blife isn'?t worth
     << [t |-> "wb", v |-> <<>>],
        [t |-> "alt", v |-> << <<"l","i","f","e"," ","i","s","n">> >>],
        [t |-> "alt", v |-> << <<"'">>, <<>> >>],
        [t |-> "alt", v |-> << <<"t"," ","w","o","r","t","h">> >>] >>,
     \* \bi (am|was) on [a-z]+
     << [t |-> "wb", v |-> <<>>],
        [t |-> "alt", v |-> << <<"i"," ">> >>],
        [t |-> "alt", v |-> << <<"a","m">>, <<"w","a","s">> >>],
        [t |-> "alt", v |-> << <<" ","o","n"," ">> >>],
        [t |-> "az+", v |-> <<>>] >>,
     \* \bi took [a-z]+
     << [t |-> "wb", v |-> <<>>],
        [t |-> "alt", v |-> << <<"i"," ","t","o","o","k"," ">> >>],
        [t |-> "az+", v |-> <<>>] >>,
     \* \bi'm (high|tripping|freaking)
     << [t |-> "wb", v |-> <<>>],
        [t |-> "alt", v |-> << <<"i","'","m"," ">> >>],
        [t |-> "alt", v |-> << <<"h","i","g","h">>, <<"t","r","i","p","p","i","n","g">>, <<"f","r","e","a","k","i","n","g">> >>] >>,
     \* \bseeing (fractals|patterns|colors)
     << [t |-> "wb", v |-> <<>>],
        [t |-> "alt", v |-> << <<"s","e","e","i","n","g"," ">> >>],
        [t |-> "alt", v |-> << <<"f","r","a","c","t","a","l","s">>, <<"p","a","t","t","e","r","n","s">>, <<"c","o","l","o","r","s">> >>] >>,
     \* \bhearing (things|voices)
     << [t |-> "wb", v |-> <<>>],
        [t |-> "alt", v |-> << <<"h","e","a","r","i","n","g"," ">> >>],
        [t |-> "alt", v |-> << <<"t","h","i","n","g","s">>, <<"v","o","i","c","e","s">> >>] >>,
     \* \bcan'?t (stop|come down|control)
     << [t |-> "wb", v |-> <<>>],
        [t |-> "alt", v |-> << <<"c","a","n">> >>],
        [t |-> "alt", v |-> << <<"'">>, <<>> >>],
        [t |-> "alt", v |-> << <<"t"," ">> >>],
        [t |-> "alt", v |-> << <<"s","t","o","p">>, <<"c","o","m","e"," ","d","o","w","n">>, <<"c","o","n","t","r","o","l">> >>] >>
  >>

\* detect_crisis_keywords with the pattern test left out
DetectKeywordsOnly(message) ==
  LET normalized_message == strip_accents(LowerStr(message))
  IN  \E k \in 1..Len(crisis_keywords) : Contains(normalized_message, crisis_keywords[k])

detect_crisis_keywords(message) ==
  LET normalized_message == strip_accents(LowerStr(message))
  IN  IF \E k \in 1..Len(crisis_keywords) : Contains(normalized_message, crisis_keywords[k])
        THEN TRUE
        ELSE \E k \in 1..Len(all_patterns) : re_search(all_patterns[k], normalized_message)

(***************************************************************************)
(* Static texts and the fixed responders.                                  *)
(***************************************************************************)
THERAPY_SYSTEM_PROMPT == <<"You are Dr. Sarah Chen, an experienced licensed psychotherapist ...">>

FallbackGreeting == <<"Ahoj, som tu na to, aby som vam ponukol podporu. Ako sa dnes citite?">>

FallbackThanks == <<"Nie je za co. Som tu pre vas. Mozete mi povedat viac o tom, co vas trapi?">>

FallbackDefault == <<"Pocujem vas a rozumiem, ze prechadzate tazkym obdobim. Mozete mi povedat viac o tom, co sa deje?">>

RateLimitText == <<"Prepacte, momentalne je server pretazeny. Skuste to prosim o chvilu.">>

AuthText == <<"Chyba autentifikacie. Kontaktujte administratora.">>

GreetingWords ==
  << <<"a","h","o","j">>, <<"h","e","l","l","o">>, <<"h","i">>, <<"h","e","y">>,
     <<"d","o","b","r","y"," ","d","e","n">> >>

ThanksWords ==
  << <<"d","a","k","u","j","e","m">>, <<"t","h","a","n","k">>,
     <<"v","U+010F","a","k","a">> >>

generate_fallback_response(user_message) ==
  LET lowered == LowerStr(user_message)
  IN  IF \E w \in 1..Len(GreetingWords) : Contains(lowered, GreetingWords[w])
        THEN FallbackGreeting
      ELSE IF \E w \in 1..Len(ThanksWords) : Contains(lowered, ThanksWords[w])
        THEN FallbackThanks
      ELSE FallbackDefault

\* the escalation sequence as built by generate_crisis_response_sequence
EscalationSegment(kind) ==
  [type |-> kind,
   content |->
     CASE kind = "validation" ->
            <<"Dakujem, ze ste mi to povedali. Je to velmi vazne ...">>
       [] kind = "resources_title" ->
            <<"Tu su kontakty na linky pomoci. Su bezplatne, anonymne a dostupne nonstop:">>
       [] kind = "resources_list" ->
            <<"112 / Linka dovery Nezabudka 0800 800 566 / IPcko / Linka bezpeci 116 111">>
       [] kind = "encouragement" ->
            <<"Prosim, zvazte zavolanie alebo napisanie na jednu z tychto liniek ...">>
       [] kind = "safety_check" ->
            <<"Som tu s vami. Ste prave teraz v bezpeci?">>]

\* generate_crisis_response_sequence with the resources list put before its title
CrisisSequenceListFirst ==
  << EscalationSegment("validation"), EscalationSegment("resources_list"),
     EscalationSegment("resources_title"), EscalationSegment("encouragement"),
     EscalationSegment("safety_check") >>

generate_crisis_response_sequence ==
  << EscalationSegment("validation"), EscalationSegment("resources_title"),
     EscalationSegment("resources_list"), EscalationSegment("encouragement"),
     EscalationSegment("safety_check") >>

\* f"[CRISIS PROTOCOL ACTIVATED] {full_crisis_text}"
CrisisAssistantContent(sequence) ==
  <<"[CRISIS PROTOCOL ACTIVATED] ">>
    \o Join([i \in 1..Len(sequence) |-> sequence[i].content])

(***************************************************************************)
(* call_openai_api.  The completion backend is outside the program: what   *)
(* it does with a request is the parameter outcome,                        *)
(*   kind "choices"   a response with a choice; isNone says its content is *)
(*                    None, else content is the text;                      *)
(*   kind "nochoices" a response with no choices;                          *)
(*   kind "raise"     the call raises, str(e) being error.                 *)
(* The result names the reply, the request that was sent (messages) and    *)
(* whether the backend was invoked.                                        *)
(***************************************************************************)
HistoryWindow == 10

LastN(s, n) == IF Len(s) > n THEN SubSeq(s, Len(s) - n + 1, Len(s)) ELSE s

\* the request built from the whole history, the window left out
BuildMessagesNoWindow(user_message, conversation_history) ==
  <<[role |-> "system", content |-> THERAPY_SYSTEM_PROMPT]>>
    \o [i \in 1..Len(conversation_history) |->
          [role |-> IF conversation_history[i].role = "user" THEN "user" ELSE "assistant",
           content |-> conversation_history[i].content]]
    \o <<[role |-> "user", content |-> user_message]>>

BuildMessages(user_message, conversation_history) ==
  LET recent_history == LastN(conversation_history, HistoryWindow)
  IN  <<[role |-> "system", content |-> THERAPY_SYSTEM_PROMPT]>>
        \o [i \in 1..Len(recent_history) |->
              [role |-> IF recent_history[i].role = "user" THEN "user" ELSE "assistant",
               content |-> recent_history[i].content]]
        \o <<[role |-> "user", content |-> user_message]>>

AttributeErrorText ==
  <<"'","N","o","n","e","T","y","p","e","'"," ","o","b","j","e","c","t"," ",
    "h","a","s"," ","n","o"," ","a","t","t","r","i","b","u","t","e"," ",
    "'","s","t","r","i","p","'">>

\* the except branch of call_openai_api, on str(e)
HandleApiError(error, user_message) ==
  LET error_msg == LowerStr(error)
  IN  IF Contains(error_msg, <<"r","a","t","e"," ","l","i","m","i","t">>)
        THEN RateLimitText
      ELSE IF Contains(error_msg, <<"i","n","v","a","l","i","d"," ","r","e","q","u","e","s","t">>)
        THEN generate_fallback_response(user_message)
      ELSE IF \/ Contains(error_msg, <<"a","u","t","h","e","n","t","i","c","a","t","i","o","n">>)
              \/ Contains(error_msg, <<"a","u","t","h","o","r","i","z","a","t","i","o","n">>)
        THEN AuthText
      ELSE generate_fallback_response(user_message)

call_openai_api(user_message, conversation_history, available, outcome) ==
  IF ~available
    THEN [reply |-> generate_fallback_response(user_message),
          invoked |-> FALSE, messages |-> <<>>]
  ELSE
    [invoked |-> TRUE,
     messages |-> BuildMessages(user_message, conversation_history),
     reply |->
       IF outcome.kind = "choices" THEN
         IF outcome.isNone THEN HandleApiError(AttributeErrorText, user_message)
         ELSE Strip(outcome.content)
       ELSE IF outcome.kind = "nochoices" THEN generate_fallback_response(user_message)
       ELSE HandleApiError(outcome.error, user_message)]

(***************************************************************************)
(* Bounds and inputs.                                                      *)
(***************************************************************************)
MaxRequests == 2       \* requests (/chat and /new-session) in one behaviour
SeedTurns == 10        \* earlier turns of the starting history, when there is one

HistoryLimit == 20

Clients == {"c1", "c2"}
Procs == {1, 2}        \* request handlers (threads of the server)

NoSession == 0
SessionIds == 1..(MaxRequests + 1)

\* Message texts a client sends.
RawMessages ==
  { <<>>,
    <<" ", "\t">>,
    <<" ", "s", "a", "d", " ">>,
    <<"H", "i">>,
    <<"C","h","c","e","m"," ","z","o","m","r","i","e","U+0165">> }

\* Request bodies: not JSON at all, JSON that is falsy (null, {}), an object
\* with no "message" key, an object with a message.
Bodies ==
  {[kind |-> k, message |-> <<>>] : k \in {"malformed", "empty", "nomessage"}}
    \cup {[kind |-> "message", message |-> m] : m \in RawMessages}

NoOutcome == [kind |-> "none", content |-> <<>>, isNone |-> FALSE, error |-> <<>>]

\* What the completion backend may do with a request.
Outcomes ==
  {[kind |-> "choices", content |-> t, isNone |-> FALSE, error |-> <<>>] :
      t \in { <<" ", "o", "k", "\n">>, <<>>, <<" ", "\n">> }}
    \cup {[kind |-> "choices", content |-> <<>>, isNone |-> TRUE, error |-> <<>>],
          [kind |-> "nochoices", content |-> <<>>, isNone |-> FALSE, error |-> <<>>]}
    \cup {[kind |-> "raise", content |-> <<>>, isNone |-> FALSE, error |-> e] :
      e \in { <<"R","a","t","e"," ","l","i","m","i","t">>,
              <<"I","n","v","a","l","i","d"," ","r","e","q","u","e","s","t">>,
              <<"A","u","t","h","e","n","t","i","c","a","t","i","o","n">>,
              <<"t","i","m","e","o","u","t">> }}

(***************************************************************************)
(* State.                                                                  *)
(***************************************************************************)
VARIABLES
  MODEL_AVAILABLE,  \* bool(OPENAI_API_KEY and client), fixed at start-up
  conversations,    \* the dict session id -> list of {role, content}
  cookie,           \* per client, the session cookie: its session_id or NoSession
  uuidCount,        \* ids handed out by uuid.uuid4() so far
  pc,               \* per handler, the line of chat() it is at
  frame,            \* per handler, the request, the locals and the response, and
                    \* what the handler has done so far in this request:
                    \* detection (none, positive, negative), the backend's
                    \* outcome, the request sent to it (messages), the number of
                    \* backend calls, of appends and of writes to conversations,
                    \* whether an exception was raised
  appended,         \* per session id, every turn ever appended to its history
  turns,            \* /chat requests started
  newSessions       \* /new-session requests served

vars == <<MODEL_AVAILABLE, conversations, cookie, uuidCount, pc, frame,
          appended, turns, newSessions>>

Pending == [status |-> 0, json |-> [pending |-> TRUE]]

PoweredByModel == "OpenAI gpt-3.5-turbo"

IdleFrame ==
  [client |-> "c1", body |-> [kind |-> "empty", message |-> <<>>],
   session |-> NoSession, modified |-> FALSE, locals |-> {},
   user_message |-> <<>>, session_id |-> NoSession, bot_reply |-> <<>>,
   truncated |-> <<>>, response |-> Pending,
   detection |-> "none", outcome |-> NoOutcome, messages |-> <<>>,
   backendCalls |-> 0, raised |-> FALSE, appends |-> 0, writes |-> 0]

\* The history after k ordinary turns ("sad", answered "ok") and the turns
\* appended to reach it.
SeedTurn ==
  << [role |-> "user", content |-> <<"s", "a", "d">>],
     [role |-> "assistant", content |-> <<"o", "k">>] >>

RECURSIVE SeedLog(_)
SeedLog(k) == IF k = 0 THEN <<>> ELSE SeedLog(k - 1) \o SeedTurn

SeedChoices == {0, SeedTurns}

Init ==
  /\ MODEL_AVAILABLE \in BOOLEAN
  /\ pc = [p \in Procs |-> "idle"]
  /\ frame = [p \in Procs |-> IdleFrame]
  /\ turns = 0
  /\ newSessions = 0
  /\ \E k \in SeedChoices :
       IF k = 0
         THEN /\ conversations = [s \in {} |-> <<>>]
              /\ cookie = [c \in Clients |-> NoSession]
              /\ uuidCount = 0
              /\ appended = [s \in SessionIds |-> <<>>]
         ELSE /\ conversations = [s \in {1} |-> LastN(SeedLog(k), HistoryLimit)]
              /\ cookie = [c \in Clients |-> IF c = "c1" THEN 1 ELSE NoSession]
              /\ uuidCount = 1
              /\ appended = [s \in SessionIds |-> IF s = 1 THEN SeedLog(k) ELSE <<>>]

(***************************************************************************)
(* Helpers of the actions.                                                 *)
(***************************************************************************)
Put(d, k, v) == [x \in (DOMAIN d) \cup {k} |-> IF x = k THEN v ELSE d[x]]

Remove(d, k) == [x \in (DOMAIN d) \ {k} |-> d[x]]

\* jsonify(...) returned: the response leaves, the session cookie is saved
\* if the handler changed it.
Return(p, f, status, json) ==
  /\ frame' = [frame EXCEPT ![p] = [f EXCEPT !.response = [status |-> status, json |-> json]]]
  /\ pc' = [pc EXCEPT ![p] = "done"]
  /\ cookie' = IF f.modified THEN [cookie EXCEPT ![f.client] = f.session] ELSE cookie

Goto(p, f, label) ==
  /\ frame' = [frame EXCEPT ![p] = f]
  /\ pc' = [pc EXCEPT ![p] = label]
  /\ UNCHANGED cookie

\* an exception raised inside the try block: control goes to line 263
Raised(p, f) == Goto(p, [f EXCEPT !.raised = TRUE], "L263")

\* if session_id not in conversations:
EnsureTest(p, create, append) ==
  /\ Goto(p, frame[p], IF frame[p].session_id \notin DOMAIN conversations THEN create ELSE append)
  /\ UNCHANGED <<MODEL_AVAILABLE, conversations, uuidCount, appended, turns, newSessions>>

\*     conversations[session_id] = []
EnsureCreate(p, append) ==
  /\ conversations' = Put(conversations, frame[p].session_id, <<>>)
  /\ Goto(p, [frame[p] EXCEPT !.writes = @ + 1], append)
  /\ UNCHANGED <<MODEL_AVAILABLE, uuidCount, appended, turns, newSessions>>

\* conversations[session_id].append(turn); KeyError when the entry is gone
AppendTurn(p, turn, next) ==
  LET f == frame[p]
      sid == f.session_id
  IN  /\ IF sid \in DOMAIN conversations
           THEN /\ conversations' = [conversations EXCEPT ![sid] = Append(@, turn)]
                /\ appended' = [appended EXCEPT ![sid] = Append(@, turn)]
                /\ Goto(p, [f EXCEPT !.appends = @ + 1, !.writes = @ + 1], next)
           ELSE /\ Raised(p, f)
                /\ UNCHANGED <<conversations, appended>>
      /\ UNCHANGED <<MODEL_AVAILABLE, uuidCount, turns, newSessions>>

(***************************************************************************)
(* POST /chat, line by line.                                               *)
(***************************************************************************)
\* a request arrives and a handler picks it up
Start(p, c, b) ==
  /\ pc[p] = "idle"
  /\ turns + newSessions < MaxRequests
  /\ turns' = turns + 1
  /\ frame' = [frame EXCEPT ![p] = [IdleFrame EXCEPT !.client = c, !.body = b,
                                                      !.session = cookie[c]]]
  /\ pc' = [pc EXCEPT ![p] = "L210"]
  /\ UNCHANGED <<MODEL_AVAILABLE, conversations, cookie, uuidCount, appended, newSessions>>

\* data = request.get_json(); if not data: return 400
GetJson(p) ==
  LET f == frame[p]
  IN  /\ pc[p] = "L210"
      /\ IF f.body.kind = "malformed" THEN Raised(p, f)
         ELSE IF f.body.kind = "empty"
           THEN Return(p, f, 400, [error |-> "No data provided"])
         ELSE Goto(p, [f EXCEPT !.locals = @ \cup {"data"}], "L214")
      /\ UNCHANGED <<MODEL_AVAILABLE, conversations, uuidCount, appended, turns, newSessions>>

\* chat() with get_session_id() called before the message is validated
ReadMessageSessionFirst(p) ==
  LET f == frame[p]
      user_message == Strip(IF f.body.kind = "message" THEN f.body.message ELSE <<>>)
      fresh == f.session = NoSession
      sid == IF fresh THEN uuidCount + 1 ELSE f.session
      g == [f EXCEPT !.locals = @ \cup {"user_message", "session_id"},
                     !.user_message = user_message,
                     !.session = sid, !.modified = @ \/ fresh, !.session_id = sid]
  IN  /\ pc[p] = "L214"
      /\ uuidCount' = IF fresh THEN uuidCount + 1 ELSE uuidCount
      /\ IF user_message = <<>>
           THEN Return(p, g, 400, [error |-> "Message is required"])
           ELSE Goto(p, g, "L218")
      /\ UNCHANGED <<MODEL_AVAILABLE, conversations, appended, turns, newSessions>>

\* user_message = data.get("message", "").strip(); if not user_message: return 400
ReadMessage(p) ==
  LET f == frame[p]
      user_message == Strip(IF f.body.kind = "message" THEN f.body.message ELSE <<>>)
      g == [f EXCEPT !.locals = @ \cup {"user_message"}, !.user_message = user_message]
  IN  /\ pc[p] = "L214"
      /\ IF user_message = <<>>
           THEN Return(p, g, 400, [error |-> "Message is required"])
           ELSE Goto(p, g, "L218")
      /\ UNCHANGED <<MODEL_AVAILABLE, conversations, uuidCount, appended, turns, newSessions>>

\* session_id = get_session_id()
GetSessionId(p) ==
  LET f == frame[p]
      fresh == f.session = NoSession
      sid == IF fresh THEN uuidCount + 1 ELSE f.session
  IN  /\ pc[p] = "L218"
      /\ uuidCount' = IF fresh THEN uuidCount + 1 ELSE uuidCount
      /\ Goto(p, [f EXCEPT !.session = sid, !.modified = @ \/ fresh,
                           !.session_id = sid, !.locals = @ \cup {"session_id"}], "L222")
      /\ UNCHANGED <<MODEL_AVAILABLE, conversations, appended, turns, newSessions>>

\* if detect_crisis_keywords(user_message):
\* detection that stays positive while the session's last stored turn is an
\* escalation
DetectBranchSticky(p) ==
  LET f == frame[p]
      h == IF f.session_id \in DOMAIN conversations
             THEN conversations[f.session_id] ELSE <<>>
      positive ==
        \/ detect_crisis_keywords(f.user_message)
        \/ /\ h # <<>>
           /\ h[Len(h)].content = CrisisAssistantContent(generate_crisis_response_sequence)
  IN  /\ pc[p] = "L222"
      /\ Goto(p, [f EXCEPT !.detection = IF positive THEN "positive" ELSE "negative"],
              IF positive THEN "L226" ELSE "L241")
      /\ UNCHANGED <<MODEL_AVAILABLE, conversations, uuidCount, appended, turns, newSessions>>

DetectBranch(p) ==
  LET f == frame[p]
      positive == detect_crisis_keywords(f.user_message)
  IN  /\ pc[p] = "L222"
      /\ Goto(p, [f EXCEPT !.detection = IF positive THEN "positive" ELSE "negative"],
              IF positive THEN "L226" ELSE "L241")
      /\ UNCHANGED <<MODEL_AVAILABLE, conversations, uuidCount, appended, turns, newSessions>>

\* the crisis branch, lines 224-238
CrisisEnsureTest(p) ==
  /\ pc[p] = "L226"
  /\ EnsureTest(p, "L227", "L228")

CrisisEnsureCreate(p) ==
  /\ pc[p] = "L227"
  /\ EnsureCreate(p, "L228")

CrisisAppendUser(p) ==
  /\ pc[p] = "L228"
  /\ AppendTurn(p, [role |-> "user", content |-> frame[p].user_message], "L231")

CrisisAppendAssistant(p) ==
  /\ pc[p] = "L231"
  /\ AppendTurn(p,
             [role |-> "assistant",
              content |-> CrisisAssistantContent(generate_crisis_response_sequence)],
             "L233")

\* chat() with the return of the crisis branch missing: control falls through
\* to the normal branch
CrisisReturnFallsThrough(p) ==
  /\ pc[p] = "L233"
  /\ Goto(p, frame[p], "L241")
  /\ UNCHANGED <<MODEL_AVAILABLE, conversations, uuidCount, appended, turns, newSessions>>

CrisisReturn(p) ==
  LET f == frame[p]
  IN  /\ pc[p] = "L233"
      /\ Return(p, f, 200,
                [response_sequence |-> generate_crisis_response_sequence,
                 session_id |-> f.session_id,
                 crisis_detected |-> TRUE,
                 powered_by |-> "Crisis Safety Protocol"])
      /\ UNCHANGED <<MODEL_AVAILABLE, conversations, uuidCount, appended, turns, newSessions>>

\* the normal branch, lines 241-261
NormalEnsureTest(p) ==
  /\ pc[p] = "L241"
  /\ EnsureTest(p, "L242", "L244")

NormalEnsureCreate(p) ==
  /\ pc[p] = "L242"
  /\ EnsureCreate(p, "L244")

NormalAppendUser(p) ==
  /\ pc[p] = "L244"
  /\ AppendTurn(p, [role |-> "user", content |-> frame[p].user_message], "L247")

\* bot_reply = call_openai_api(user_message, conversations[session_id])
CallApi(p) ==
  LET f == frame[p]
      sid == f.session_id
  IN  /\ pc[p] = "L247"
      /\ IF sid \notin DOMAIN conversations THEN Raised(p, f)
         ELSE \E outcome \in (IF MODEL_AVAILABLE THEN Outcomes ELSE {NoOutcome}) :
           LET r == call_openai_api(f.user_message, conversations[sid],
                                    MODEL_AVAILABLE, outcome)
           IN  Goto(p, [f EXCEPT !.bot_reply = r.reply,
                                 !.locals = @ \cup {"bot_reply"},
                                 !.outcome = outcome,
                                 !.messages = r.messages,
                                 !.backendCalls = @ + (IF r.invoked THEN 1 ELSE 0)],
                    "L250")
      /\ UNCHANGED <<MODEL_AVAILABLE, conversations, uuidCount, appended, turns, newSessions>>

NormalAppendAssistant(p) ==
  /\ pc[p] = "L250"
  /\ AppendTurn(p, [role |-> "assistant", content |-> frame[p].bot_reply], "L253")

\* the slice taken one turn short: conversations[session_id][-19:]
TruncateReadOffByOne(p) ==
  LET f == frame[p]
      sid == f.session_id
  IN  /\ pc[p] = "L253"
      /\ IF sid \notin DOMAIN conversations THEN Raised(p, f)
         ELSE IF Len(conversations[sid]) > HistoryLimit
           THEN Goto(p, [f EXCEPT !.truncated = LastN(conversations[sid], HistoryLimit - 1)],
                     "L254")
         ELSE Goto(p, f, "L256")
      /\ UNCHANGED <<MODEL_AVAILABLE, conversations, uuidCount, appended, turns, newSessions>>

\* if len(conversations[session_id]) > 20: ... conversations[session_id][-20:]
TruncateRead(p) ==
  LET f == frame[p]
      sid == f.session_id
  IN  /\ pc[p] = "L253"
      /\ IF sid \notin DOMAIN conversations THEN Raised(p, f)
         ELSE IF Len(conversations[sid]) > HistoryLimit
           THEN Goto(p, [f EXCEPT !.truncated = LastN(conversations[sid], HistoryLimit)],
                     "L254")
         ELSE Goto(p, f, "L256")
      /\ UNCHANGED <<MODEL_AVAILABLE, conversations, uuidCount, appended, turns, newSessions>>

\* the truncation as one step that slices the history as it is now
TruncateWriteFresh(p) ==
  /\ pc[p] = "L254"
  /\ conversations' = Put(conversations, frame[p].session_id,
                          IF frame[p].session_id \in DOMAIN conversations
                            THEN LastN(conversations[frame[p].session_id], HistoryLimit)
                            ELSE frame[p].truncated)
  /\ Goto(p, [frame[p] EXCEPT !.writes = @ + 1], "L256")
  /\ UNCHANGED <<MODEL_AVAILABLE, uuidCount, appended, turns, newSessions>>

\*     conversations[session_id] = <the slice>
TruncateWrite(p) ==
  /\ pc[p] = "L254"
  /\ conversations' = Put(conversations, frame[p].session_id, frame[p].truncated)
  /\ Goto(p, [frame[p] EXCEPT !.writes = @ + 1], "L256")
  /\ UNCHANGED <<MODEL_AVAILABLE, uuidCount, appended, turns, newSessions>>

NormalReturn(p) ==
  LET f == frame[p]
  IN  /\ pc[p] = "L256"
      /\ Return(p, f, 200,
                [response_sequence |-> <<[type |-> "standard", content |-> f.bot_reply]>>,
                 session_id |-> f.session_id,
                 powered_by |-> PoweredByModel,
                 crisis_detected |-> FALSE])
      /\ UNCHANGED <<MODEL_AVAILABLE, conversations, uuidCount, appended, turns, newSessions>>

\* except Exception as e: lines 263-270
\* the except block answering as the one of new_session does: an error and 500
ExceptHandlerError500(p) ==
  /\ pc[p] = "L263"
  /\ Return(p, frame[p], 500, [error |-> "Internal server error"])
  /\ UNCHANGED <<MODEL_AVAILABLE, conversations, uuidCount, appended, turns, newSessions>>

ExceptHandler(p) ==
  LET f == frame[p]
      fallback == generate_fallback_response(
                    IF "user_message" \in f.locals THEN f.user_message
                    ELSE <<"h", "e", "l", "l", "o">>)
  IN  /\ pc[p] = "L263"
      /\ Return(p, f, 200,
                [response_sequence |-> <<[type |-> "fallback", content |-> fallback]>>,
                 powered_by |-> "Fallback response",
                 error |-> "Used backup system"])
      /\ UNCHANGED <<MODEL_AVAILABLE, conversations, uuidCount, appended, turns, newSessions>>

\* the response has been sent, the handler is free for the next request
Finish(p) ==
  /\ pc[p] = "done"
  /\ pc' = [pc EXCEPT ![p] = "idle"]
  /\ frame' = [frame EXCEPT ![p] = IdleFrame]
  /\ UNCHANGED <<MODEL_AVAILABLE, conversations, cookie, uuidCount, appended, turns,
                 newSessions>>

Chat(p) ==
  \/ GetJson(p) \/ ReadMessage(p) \/ GetSessionId(p) \/ DetectBranch(p)
  \/ CrisisEnsureTest(p) \/ CrisisEnsureCreate(p) \/ CrisisAppendUser(p)
  \/ CrisisAppendAssistant(p) \/ CrisisReturn(p)
  \/ NormalEnsureTest(p) \/ NormalEnsureCreate(p) \/ NormalAppendUser(p)
  \/ CallApi(p) \/ NormalAppendAssistant(p) \/ TruncateRead(p) \/ TruncateWrite(p)
  \/ NormalReturn(p) \/ ExceptHandler(p) \/ Finish(p)

(***************************************************************************)
(* POST /new-session, lines 272-284.                                       *)
(***************************************************************************)
\* new_session emptying the whole map: conversations.clear()
new_sessionClearsAll(c) ==
  /\ turns + newSessions < MaxRequests
  /\ newSessions' = newSessions + 1
  /\ conversations' = [x \in {} |-> <<>>]
  /\ uuidCount' = uuidCount + 1
  /\ cookie' = [cookie EXCEPT ![c] = uuidCount + 1]
  /\ UNCHANGED <<MODEL_AVAILABLE, pc, frame, appended, turns>>

new_session(c) ==
  /\ turns + newSessions < MaxRequests
  /\ newSessions' = newSessions + 1
  /\ conversations' = IF cookie[c] # NoSession /\ cookie[c] \in DOMAIN conversations
                        THEN Remove(conversations, cookie[c])
                        ELSE conversations
  /\ uuidCount' = uuidCount + 1
  /\ cookie' = [cookie EXCEPT ![c] = uuidCount + 1]
  /\ UNCHANGED <<MODEL_AVAILABLE, pc, frame, appended, turns>>

(***************************************************************************)
(* An exception of the environment inside the try block of chat() (a       *)
(* print to a closed or non-UTF-8 stdout, jsonify, the session interface): *)
(* any line from 210 to the return may raise.                              *)
(***************************************************************************)
TryLines ==
  {"L210", "L214", "L218", "L222", "L226", "L227", "L228", "L231", "L233",
   "L241", "L242", "L244", "L247", "L250", "L253", "L254", "L256"}

Raise(p) ==
  /\ pc[p] \in TryLines
  /\ Raised(p, frame[p])
  /\ UNCHANGED <<MODEL_AVAILABLE, conversations, uuidCount, appended, turns, newSessions>>

(***************************************************************************)
(* Specifications.  Spec: requests are handled one at a time, by handler   *)
(* 1.  SpecFault: the /chat requests of one client, handled one at a time, *)
(* and the environment may raise inside chat().                            *)
(***************************************************************************)
Quiet == \A p \in Procs : pc[p] = "idle"

\* the requests arrive one after the other
ChatRequest == \E c \in Clients, b \in Bodies : Start(1, c, b)

NewSessionRequest == Quiet /\ \E c \in Clients : new_session(c)

Next == ChatRequest \/ Chat(1) \/ NewSessionRequest

Spec == Init /\ [][Next]_vars

ChatRequestOfOne == \E b \in Bodies : Start(1, "c1", b)

NextFault == ChatRequestOfOne \/ Chat(1) \/ Raise(1)

SpecFault == Init /\ [][NextFault]_vars

(***************************************************************************)
(* SpecConc: the /chat requests of one client handled by two handlers at   *)
(* the same time; the steps of the two interleave line by line.            *)
(***************************************************************************)
ConcBodies ==
  {[kind |-> "malformed", message |-> <<>>],
   [kind |-> "message", message |-> <<"H", "i">>],
   [kind |-> "message",
    message |-> <<"C","h","c","e","m"," ","z","o","m","r","i","e","U+0165">>]}

ConcRequest(p) == \E b \in ConcBodies : Start(p, "c1", b)

NextConc == \E p \in Procs : ConcRequest(p) \/ Chat(p)

\* OPENAI_API_KEY is not set: every reply is generate_fallback_response's
InitConc == Init /\ ~MODEL_AVAILABLE

SpecConc == InitConc /\ [][NextConc]_vars

(***************************************************************************)
(* detect_crisis_keywords called on its own.  SpecDetect: the function is  *)
(* called on message texts, one call after the other, whatever the         *)
(* conversation map holds; the handler frame records the text and the      *)
(* result of the last call.                                                *)
(***************************************************************************)
\* Message texts the function is called on.
DetectMessages ==
  { <<>>,
    <<" ">>,
    <<"H","o","w"," ","i","s"," ","t","h","e"," ","w","e","a","t","h","e","r"," ","t","o","d","a","y","?">>,
    <<"C","h","c","e","m"," ","z","o","m","r","i","e","U+0165">>,
    <<"C","H","C","E","M"," ","Z","O","M","R","I","E","U+0164">>,
    <<"c","h","c","e","m"," ","z","o","m","r","i","e","t">>,
    <<"I"," ","d","o"," ","N","O","T"," ","w","a","n","t"," ","t","o"," ","h","u","r","t"," ","m","y","s","e","l","f">>,
    <<"s","u","i","c","i","d","a","l">>,
    <<"I"," ","c","a","n","'","t"," ","t","a","k","e"," ","t","h","i","s"," ","a","n","y","m","o","r","e">>,
    <<"i"," ","c","a","n","t"," ","t","a","k","e"," ","i","t"," ","a","n","y","m","o","r","e">>,
    <<"i"," ","t","o","o","k"," ","p","i","l","l","s">>,
    <<"h","i"," ","t","o","o","k"," ","p","i","l","l","s">>,
    <<"i"," ","t","o","o","k"," ","5">>,
    <<"I"," ","a","m"," ","o","n"," ","L","S","D">>,
    <<"i"," ","a","m"," ","o","n">>,
    <<"l","i","f","e"," ","i","s","n","'","t"," ","w","o","r","t","h">>,
    <<"c","a","n","'","t"," ","s","t","o","p">>,
    <<"s","c","a","n","'","t"," ","s","t","o","p">>,
    <<"m","y","s","l","i","m"," ","n","a"," ","s","a","m","o","v","r","a","z","d","u">>,
    <<"C","h","c","i"," ","s","k","o","U+010D","i","t">>,
    <<"h","e","a","r","i","n","g"," ","v","o","i","c","e","s">>,
    <<"h","e","a","r","i","n","g"," ","a","i","d","s">>,
    <<"I","'","m"," ","h","i","g","h">>,
    <<"i"," ","w","a","n","t"," ","t","o"," ","s","l","e","e","p">>,
    <<"i"," ","w","a","n","t"," ","t","o"," ","d","i","e">>,
    <<"U+00FA","z","k","o","s","U+0165">>,
    <<"H","i">>,
    <<"n","e","m","U+00E1"," ","t","o"," ","z","m","y","s","e","l">> }

DetectCall(m) ==
  /\ pc[1] = "idle"
  /\ turns + newSessions < MaxRequests
  /\ turns' = turns + 1
  /\ frame' = [frame EXCEPT ![1] =
                 [IdleFrame EXCEPT !.body = [kind |-> "message", message |-> m],
                                   !.detection = IF detect_crisis_keywords(m)
                                                   THEN "positive" ELSE "negative"]]
  /\ UNCHANGED <<MODEL_AVAILABLE, conversations, cookie, uuidCount, pc, appended,
                 newSessions>>

NextDetect == \E m \in DetectMessages : DetectCall(m)

SpecDetect == Init /\ [][NextDetect]_vars

(***************************************************************************)
(* Properties.                                                             *)
(***************************************************************************)
Done(p) == pc[p] = "done"

\* the request carried a message that is not blank
HasMessage(p) ==
  frame[p].body.kind = "message" /\ Strip(frame[p].body.message) # <<>>

Json(p) == frame[p].response.json

Stored(p) == conversations[frame[p].session_id]

\* C1: whenever no handler is in the middle of a turn, every stored session
\* history has at most 20 turns - also after a crisis-positive turn has
\* appended its user turn and its synthesized assistant turn.
C1_HistoryAtMost20 ==
  (\A p \in Procs : pc[p] \in {"idle", "done"}) => \A s \in DOMAIN conversations : Len(conversations[s]) <= 20

\* C2: when more than 20 turns have been appended to a session and the
\* request that made the last append has completed, the stored history is
\* exactly the 20 most recently appended turns, in the order of appending.
C2_Last20Kept ==
  \A p \in Procs :
    ( /\ Done(p)
      /\ frame[p].appends > 0
      /\ frame[p].session_id \in DOMAIN conversations
      /\ Len(appended[frame[p].session_id]) > 20 )
    => /\ Len(Stored(p)) = 20
       /\ \A i \in 1..20 :
            Stored(p)[i] = appended[frame[p].session_id]
                                   [Len(appended[frame[p].session_id]) - 20 + i]

\* C3: a request whose message was detected crisis-positive never invokes the
\* completion backend, at any point of the turn.
C3_CrisisNeverCallsBackend ==
  \A p \in Procs : frame[p].detection = "positive" => frame[p].backendCalls = 0

\* a crisis-positive turn completed while the backend was available and the
\* session already had history
C3_Witness ==
  \E p \in Procs :
    /\ Done(p)
    /\ frame[p].detection = "positive"
    /\ MODEL_AVAILABLE
    /\ frame[p].response.status = 200
    /\ Len(Stored(p)) > 2

\* C4: once detection has returned positive, the response delivered is the
\* escalation sequence with the crisis flag set, also when a later step of
\* the turn raises.
C4_EscalationDelivered ==
  \A p \in Procs :
    (Done(p) /\ frame[p].detection = "positive")
    => /\ frame[p].response.status = 200
       /\ "crisis_detected" \in DOMAIN Json(p)
       /\ Json(p).crisis_detected = TRUE
       /\ Json(p).response_sequence = generate_crisis_response_sequence

SegmentKinds ==
  <<"validation", "resources_title", "resources_list", "encouragement", "safety_check">>

\* C5: every crisis-positive turn returns exactly 5 segments, of the kinds
\* validation, resources_title, resources_list, encouragement, safety_check in
\* this order, with the crisis flag true - whatever the history, the earlier
\* turns and the backend.
C5_FiveSegmentsInOrder ==
  \A p \in Procs :
    (Done(p) /\ frame[p].detection = "positive")
    => /\ {"response_sequence", "crisis_detected"} \subseteq DOMAIN Json(p)
       /\ Len(Json(p).response_sequence) = 5
       /\ \A i \in 1..5 : Json(p).response_sequence[i].type = SegmentKinds[i]
       /\ Json(p).crisis_detected

\* a crisis-positive turn answered with no backend configured, on a session
\* that already held earlier turns
C5_Witness ==
  \E p \in Procs :
    /\ Done(p)
    /\ frame[p].detection = "positive"
    /\ ~MODEL_AVAILABLE
    /\ frame[p].session_id \in DOMAIN conversations
    /\ Len(Stored(p)) >= 20

\* the message of the request is not blank and is crisis-negative
NonCrisisTurn(p) ==
  HasMessage(p) /\ ~detect_crisis_keywords(Strip(frame[p].body.message))

\* the backend failed: no client, no choices, a choice with no content (the
\* AttributeError of .strip()), or the call raised
BackendFailed(p) ==
  \/ frame[p].backendCalls = 0
  \/ frame[p].outcome.kind \in {"nochoices", "raise"}
  \/ frame[p].outcome.kind = "choices" /\ frame[p].outcome.isNone

ReplyOf(p) == Json(p).response_sequence[1].content

\* C6: a non-crisis turn in which the backend failed, or in which an
\* unexpected exception was raised, completes with status 200 and a reply
\* of one segment that is not empty.
C6_FailureStillReplies ==
  \A p \in Procs :
    (Done(p) /\ NonCrisisTurn(p) /\ (BackendFailed(p) \/ frame[p].raised))
    => /\ frame[p].response.status = 200
       /\ "response_sequence" \in DOMAIN Json(p)
       /\ Len(Json(p).response_sequence) = 1
       /\ ReplyOf(p) # <<>>

\* a non-crisis turn completed after an exception inside chat()
C6_Witness ==
  \E p \in Procs :
    /\ Done(p) /\ NonCrisisTurn(p) /\ frame[p].raised
    /\ frame[p].response.status = 200
    /\ frame[p].appends > 0

\* C7: on a non-crisis turn to which the backend answered with no content or
\* with a reply text that is empty after stripping, the reply returned and
\* the assistant turn stored are the static fallback reply.
C7_EmptyReplyReplaced ==
  \A p \in Procs :
    ( /\ Done(p)
      /\ frame[p].detection = "negative"
      /\ ~frame[p].raised
      /\ frame[p].outcome.kind = "choices"
      /\ (frame[p].outcome.isNone \/ Strip(frame[p].outcome.content) = <<>>)
      /\ frame[p].session_id \in DOMAIN conversations )
    => /\ ReplyOf(p) = generate_fallback_response(frame[p].user_message)
       /\ Stored(p)[Len(Stored(p))].content = ReplyOf(p)

\* C8: the branch a turn takes depends on its own message only: a
\* crisis-negative message gets the normal reply with the crisis flag false, a
\* crisis-positive one the escalation, whatever the session's history.
C8_NoStickyCrisis ==
  \A p \in Procs :
    (Done(p) /\ HasMessage(p))
    => /\ "crisis_detected" \in DOMAIN Json(p)
       /\ Json(p).crisis_detected = detect_crisis_keywords(Strip(frame[p].body.message))
       /\ Json(p).crisis_detected
            => /\ Json(p).powered_by = "Crisis Safety Protocol"
               /\ frame[p].appends = 2 /\ frame[p].backendCalls = 0
       /\ ~Json(p).crisis_detected
            => /\ Json(p).powered_by = PoweredByModel
               /\ Len(Json(p).response_sequence) = 1
               /\ Json(p).response_sequence[1].type = "standard"
               /\ Json(p).response_sequence[1].content = frame[p].bot_reply
               /\ frame[p].backendCalls = IF MODEL_AVAILABLE THEN 1 ELSE 0

\* a crisis-negative turn handled normally right after a crisis-positive turn
\* of the same session
C8_Witness ==
  \E p \in Procs :
    /\ Done(p) /\ HasMessage(p)
    /\ frame[p].detection = "negative"
    /\ frame[p].session_id \in DOMAIN conversations
    /\ Len(Stored(p)) >= 4
    /\ Stored(p)[Len(Stored(p)) - 2].content
         = CrisisAssistantContent(generate_crisis_response_sequence)
    /\ Json(p).crisis_detected = FALSE

\* the request carried a message that is empty or blank, or no message
BlankMessage(p) ==
  /\ frame[p].body.kind \in {"message", "nomessage"}
  /\ Strip(frame[p].body.message) = <<>>

\* C9: the step that answers a request whose message is empty or
\* whitespace-only answers 400, before detection has run; the handler has
\* created no session id, written nothing to the conversation map and not
\* called the backend, and the step leaves the conversation map, the cookies
\* and the id counter as they were.
C9_BlankRejectedUntouched ==
  [][\A p \in Procs :
       (pc[p] # "done" /\ pc'[p] = "done" /\ BlankMessage(p))
       => /\ frame'[p].response.status = 400
          /\ frame'[p].detection = "none"
          /\ ~frame'[p].modified
          /\ "session_id" \notin frame'[p].locals
          /\ frame'[p].writes = 0
          /\ frame'[p].backendCalls = 0
          /\ conversations' = conversations
          /\ cookie' = cookie
          /\ uuidCount' = uuidCount]_vars

\* a whitespace-only message rejected from a client that has no session yet
C9_Witness ==
  \E p \in Procs :
    /\ Done(p)
    /\ frame[p].body.kind = "message"
    /\ frame[p].body.message # <<>>
    /\ Strip(frame[p].body.message) = <<>>
    /\ frame[p].response.status = 400
    /\ cookie[frame[p].client] = NoSession

KeywordHit(n) == \E k \in 1..Len(crisis_keywords) : Contains(n, crisis_keywords[k])

PatternHit(n) == \E k \in 1..Len(all_patterns) : re_search(all_patterns[k], n)

\* C11: the result of a call of detect is true exactly when the normalized
\* message contains a keyword or matches a pattern; testing the patterns
\* first gives the same result; the empty message gives false; and this holds
\* whatever the conversation map holds and whatever was asked before.
C11_DetectIsKeywordOrPattern ==
  frame[1].detection # "none"
  => LET m == frame[1].body.message
         n == strip_accents(LowerStr(m))
         result == frame[1].detection = "positive"
     IN  /\ result = (KeywordHit(n) \/ PatternHit(n))
         /\ result = (IF PatternHit(n) THEN TRUE ELSE KeywordHit(n))
         /\ m = <<>> => ~result

\* a second call, on a session with history, answered true by a pattern
\* alone
C11_Witness ==
  /\ frame[1].detection = "positive"
  /\ turns = 2
  /\ 1 \in DOMAIN conversations
  /\ LET n == strip_accents(LowerStr(frame[1].body.message))
     IN  PatternHit(n) /\ ~KeywordHit(n)

\* the reply text of the turn is the text the backend returned
BackendProducedReply(p) ==
  /\ frame[p].backendCalls > 0
  /\ frame[p].outcome.kind = "choices"
  /\ ~frame[p].outcome.isNone

\* C12: the outcome of every turn carries the crisis boolean, and its powered_by
\* names the path that produced the reply: the crisis protocol on a
\* crisis-positive turn, the model only when the backend produced the reply
\* text, a fallback whenever the reply text is a static one.
C12_PoweredByNamesPath ==
  \A p \in Procs :
    (Done(p) /\ HasMessage(p))
    => /\ "crisis_detected" \in DOMAIN Json(p)
       /\ frame[p].detection = "positive"
            => Json(p).powered_by = "Crisis Safety Protocol"
       /\ Json(p).powered_by = PoweredByModel => BackendProducedReply(p)
       /\ (frame[p].detection # "positive" /\ ~BackendProducedReply(p))
            => Json(p).powered_by = "Fallback response"

Count(seq, e) == Cardinality({i \in 1..Len(seq) : seq[i] = e})

\* C13: concurrent requests of one session are not serialized.  When a
\* handler writes back the slice it took at line 253 while the stored history
\* is what it sliced plus one turn appended since (a turn unlike every other
\* turn of the session), the stored history lacks that turn afterwards
\* although it is among the 20 most recently appended.
C13_StaleWriteBackDropsTurn ==
  [][\A p \in Procs :
       LET sid == frame[p].session_id
           h == conversations[sid]
           t == h[Len(h)]
       IN  ( /\ pc[p] = "L254" /\ pc'[p] = "L256"
             /\ sid \in DOMAIN conversations
             /\ Len(h) > 20
             /\ SubSeq(h, Len(h) - 20, Len(h) - 1) = frame[p].truncated
             /\ Count(appended[sid], t) = 1 )
           => /\ conversations'[sid] = frame[p].truncated
              /\ Count(conversations'[sid], t) = 0
              /\ Count(LastN(appended[sid], 20), t) = 1]_vars

\* two requests of one session have both finished, and a turn one of them
\* appended, among the 20 most recently appended, is not in the stored history
C13_Witness ==
  /\ \A p \in Procs : Done(p) /\ frame[p].response.status = 200
  /\ frame[1].session_id = frame[2].session_id
  /\ frame[1].session_id \in DOMAIN conversations
  /\ LET sid == frame[1].session_id
         recent == LastN(appended[sid], 20)
     IN  \E i \in 1..Len(recent) :
           /\ Count(appended[sid], recent[i]) = 1
           /\ Count(conversations[sid], recent[i]) = 0

\* the current user message as a turn
UserTurn(p) == [role |-> "user", content |-> frame[p].user_message]

\* C14 as stated: on a non-crisis turn whose message the session has not
\* seen before, the request sent to the backend holds the current user
\* message exactly once, as its last entry, and not among the history turns
\* before it.
C14_UserMessageSentOnce ==
  \A p \in Procs :
    ( /\ pc[p] = "L250" /\ frame[p].backendCalls > 0
      /\ Count(appended[frame[p].session_id], UserTurn(p)) = 1 )
    => LET m == frame[p].messages
       IN  /\ m[Len(m)] = UserTurn(p)
           /\ Count(m, UserTurn(p)) = 1
           /\ \A i \in 1..(Len(m) - 1) : m[i] # UserTurn(p)

\* a history of user, assistant, user, assistant, ... pairs
Alternates(h) ==
  /\ Len(h) % 2 = 0
  /\ \A i \in 1..Len(h) : h[i].role = IF i % 2 = 1 THEN "user" ELSE "assistant"

\* the assistant turn chat() produced for the request of handler p
AssistantTurn(p) ==
  [role |-> "assistant",
   content |-> IF frame[p].detection = "positive"
                 THEN CrisisAssistantContent(Json(p).response_sequence)
                 ELSE Json(p).response_sequence[1].content]

\* C15: with requests handled one at a time, after every completed /chat turn
\* (crisis or normal, truncated or not) the session's stored history has even
\* length, starts with a user turn and alternates user, assistant; it ends
\* with the turn's user message followed by the reply produced for it, and
\* it is the tail of what was appended, so every pair in it is such a pair.
C15_HistoryAlternates ==
  \A p \in Procs :
    (Done(p) /\ frame[p].appends > 0)
    => /\ frame[p].session_id \in DOMAIN conversations
       /\ LET h == Stored(p)
          IN  /\ Alternates(h)
              /\ Len(h) >= 2
              /\ h[Len(h) - 1] = UserTurn(p)
              /\ h[Len(h)] = AssistantTurn(p)
              /\ h = LastN(appended[frame[p].session_id], Len(h))
              /\ Alternates(appended[frame[p].session_id])

\* a normal turn that was truncated to 20 turns has completed
C15_Witness ==
  \E p \in Procs :
    /\ Done(p) /\ frame[p].appends = 2
    /\ frame[p].detection = "negative"
    /\ frame[p].truncated # <<>>
    /\ Len(Stored(p)) = 20

\* the history stored for session id s is the same before and after the step
SameHistory(s) ==
  /\ (s \in DOMAIN conversations) = (s \in DOMAIN conversations')
  /\ s \in DOMAIN conversations => conversations'[s] = conversations[s]

\* C16: a /new-session step removes the caller's session from the map, gives
\* the caller a session id that is new and differs from the previous one,
\* and leaves every other session's history as it was; a step of a /chat
\* turn changes no history but that of the turn's own session id.
C16_SessionsIsolated ==
  [][IF newSessions' = newSessions + 1
       THEN \E c \in Clients :
              /\ cookie' = [cookie EXCEPT ![c] = cookie'[c]]
              /\ cookie'[c] # cookie[c]
              /\ cookie'[c] \in SessionIds
              /\ cookie'[c] \notin DOMAIN conversations
              /\ cookie[c] \notin DOMAIN conversations'
              /\ DOMAIN conversations' = DOMAIN conversations \ {cookie[c]}
              /\ \A s \in SessionIds \ {cookie[c]} : SameHistory(s)
       ELSE \A s \in SessionIds :
              SameHistory(s)
              \/ \E p \in Procs : pc[p] # "idle" /\ HasMessage(p) /\ frame[p].session_id = s]_vars

\* a client with a stored history asked for a new session while another
\* session had a history: the first is gone, the second is intact
C16_Witness ==
  /\ newSessions = 1
  /\ appended[1] # <<>> /\ 1 \notin DOMAIN conversations
  /\ cookie["c1"] = 3
  /\ cookie["c2"] = 2
  /\ 2 \in DOMAIN conversations
  /\ conversations[2] = appended[2] /\ Len(conversations[2]) = 2

====
